---- MODULE Spec2Model ----
(***************************************************************************)
(* Model of analyse.py (jonohill/power-prices): the plan catalogue, the    *)
(* half-hourly usage rows, the per-plan evaluation loop with its day       *)
(* buckets, the annualisation and the final ranking.                       *)
(*                                                                         *)
(* Representation.  A datetime is a record [day, tod]: a day number (day 0 *)
(* is a Friday) and the second of the day.  A price dictionary is a        *)
(* function from the tariff keys that are present to integers; the key     *)
(* 'name' is kept in the plan's field name, "" standing for an absent key  *)
(* (analyse.py:287-298 never stores an empty value).  'surcharge' is held  *)
(* in hundredths.  Python floats are modelled by exact rationals <<n, d>>. *)
(***************************************************************************)
EXTENDS Integers, Sequences, FiniteSets, TLC

VARIABLES
    plans,                \* analyse.py:274, 308  the catalogue, in file order
    usage_data,           \* analyse.py:275, 325  (period_start, period_end, usage)
    total_time,           \* analyse.py:278, 324
    results,              \* analyse.py:279, 420, 426
    pc,                   \* position in analyse.py:385-426
    planIdx,              \* analyse.py:385  index of the plan being evaluated
    rowIdx,               \* analyse.py:393  index of the next usage row
    total_cost,           \* analyse.py:389
    current_day,          \* analyse.py:390
    day_prices,           \* analyse.py:391
    period_usage_charge,  \* analyse.py:401
    max_hour,             \* analyse.py:119  as left by the last daily_total call
    evaluated             \* history: the outcome of each plan evaluated so far

vars == <<plans, usage_data, total_time, results, pc, planIdx, rowIdx,
          total_cost, current_day, day_prices, period_usage_charge,
          max_hour, evaluated>>

\* ------------------------------------------------------------------ bounds
MaxRows == 2
MaxPlans == 3
MaxDay == 1
MaxCharge == 1

\* --------------------------------------------------------------- constants
TOTAL_TIME_PERIOD == 31536000

None == -1

\* ------------------------------------------------------- dates and times
time(h, m) == h * 3600 + m * 60

weekday(date) == (date.day + 4) % 7

AbsSeconds(date) == date.day * 86400 + date.tod

\* timedelta.seconds: the seconds component of the normalised difference
seconds(period_start, period_end) ==
    (AbsSeconds(period_end) - AbsSeconds(period_start)) % 86400

\* --------------------------------------------------------------- rationals
RECURSIVE gcd(_, _)
gcd(a, b) == IF b = 0 THEN a ELSE gcd(b, a % b)

abs(x) == IF x < 0 THEN -x ELSE x

Rat(n, d) ==
    LET g == gcd(abs(n), abs(d))
        s == IF d < 0 THEN -1 ELSE 1
    IN  <<s * (n \div g), s * (d \div g)>>

RMul(a, b) ==
    LET g1 == gcd(abs(a[1]), b[2])
        g2 == gcd(abs(b[1]), a[2])
    IN  Rat((a[1] \div g1) * (b[1] \div g2), (a[2] \div g2) * (b[2] \div g1))

RDiv(a, b) == RMul(a, Rat(b[2], b[1]))

RSub(a, b) == Rat(a[1] * b[2] - b[1] * a[2], a[2] * b[2])

RLess(a, b) == a[1] * b[2] < b[1] * a[2]

\* ------------------------------------------------------------ plan classes
ClassNames ==
    {"Plan", "ContactGoodCharge", "ContactGoodChargeLowUser",
     "ContactGoodNights", "ContactGoodNightsLowUser",
     "ContactGoodWeekends", "ContactGoodWeekendsLowUser",
     "ElectricKiwi", "ElectricKiwiKiwi", "ElectricKiwiKiwiLowUser",
     "ElectricKiwiMoveMaster", "ElectricKiwiMoveMasterLowUser",
     "ElectricKiwiPrepay300", "ElectricKiwiPrepay300LowUser",
     "FlickOffPeak", "FlickOffPeakLowUser", "GenesisEV",
     "ZEv", "ZEvLowUser", "OctopusFixed", "OctopusFixedLowUser"}

\* globals().get(name): the class of that name, else the generic Plan
plan_class(name) == IF name \in ClassNames THEN name ELSE "Plan"

custom(plan) == plan.name \in ClassNames

\* the class whose variable() a class inherits
VariableOwner(cls) ==
    CASE cls \in {"ContactGoodCharge", "ContactGoodChargeLowUser"} -> "ContactGoodCharge"
      [] cls \in {"ContactGoodNights", "ContactGoodNightsLowUser"} -> "ContactGoodNights"
      [] cls \in {"ContactGoodWeekends", "ContactGoodWeekendsLowUser"} -> "ContactGoodWeekends"
      [] cls \in {"ElectricKiwi", "ElectricKiwiKiwi", "ElectricKiwiKiwiLowUser",
                  "ElectricKiwiPrepay300", "ElectricKiwiPrepay300LowUser"} -> "ElectricKiwi"
      [] cls \in {"ElectricKiwiMoveMaster", "ElectricKiwiMoveMasterLowUser"} -> "ElectricKiwiMoveMaster"
      [] cls \in {"FlickOffPeak", "FlickOffPeakLowUser"} -> "FlickOffPeak"
      [] cls = "GenesisEV" -> "GenesisEV"
      [] cls \in {"ZEv", "ZEvLowUser"} -> "ZEv"
      [] cls \in {"OctopusFixed", "OctopusFixedLowUser"} -> "OctopusFixed"
      [] OTHER -> "Plan"

\* the classes that inherit ElectricKiwi.daily_total
IsElectricKiwi(cls) ==
    cls \in {"ElectricKiwi", "ElectricKiwiKiwi", "ElectricKiwiKiwiLowUser",
             "ElectricKiwiMoveMaster", "ElectricKiwiMoveMasterLowUser",
             "ElectricKiwiPrepay300", "ElectricKiwiPrepay300LowUser"}

\* ------------------------------------------------- time-of-use classifiers
\* Each returns the tariff key it looks up, or "free" where it returns 0.
Plan_variable(date) == "variable"

ContactGoodCharge_variable_lateclose(date) ==
    IF date.tod >= time(7, 0) /\ date.tod <= time(21, 0)
    THEN "variable" ELSE "offpeak"

ContactGoodCharge_variable(date) ==
    IF date.tod >= time(7, 0) /\ date.tod < time(21, 0)
    THEN "variable" ELSE "offpeak"

ContactGoodNights_variable(date) ==
    IF date.tod >= time(21, 0) /\ date.tod <= time(23, 59)
    THEN "free" ELSE "variable"

ContactGoodWeekends_variable(date) ==
    IF weekday(date) >= 5 /\ date.tod >= time(9, 0) /\ date.tod < time(17, 0)
    THEN "free" ELSE "variable"

ElectricKiwi_variable(date) ==
    IF weekday(date) >= 5 THEN "offpeak"
    ELSE IF \/ (date.tod >= time(7, 0) /\ date.tod < time(9, 0))
            \/ (date.tod >= time(17, 0) /\ date.tod < time(21, 0))
         THEN "variable" ELSE "offpeak"

ElectricKiwiMoveMaster_variable(date) ==
    IF /\ weekday(date) < 5
       /\ \/ (date.tod >= time(7, 0) /\ date.tod < time(9, 0))
          \/ (date.tod >= time(17, 0) /\ date.tod < time(21, 0))
    THEN "variable"
    ELSE IF \/ (date.tod >= time(9, 0) /\ date.tod < time(17, 0))
            \/ (date.tod >= time(21, 0) /\ date.tod < time(23, 0))
         THEN "offpeak" ELSE "night"

FlickOffPeak_variable(date) ==
    IF \/ (date.tod >= time(7, 0) /\ date.tod < time(11, 0))
       \/ (date.tod >= time(17, 0) /\ date.tod < time(21, 0))
    THEN "variable" ELSE "offpeak"

GenesisEV_variable(date) ==
    IF date.tod >= time(7, 0) /\ date.tod < time(21, 0)
    THEN "variable" ELSE "offpeak"

ZEv_variable(date) ==
    IF date.tod >= time(3, 0) /\ date.tod < time(6, 0) THEN "free"
    ELSE IF date.tod >= time(7, 0) /\ date.tod < time(21, 0)
         THEN "variable" ELSE "offpeak"

OctopusFixed_variable(date) ==
    IF weekday(date) < 5
    THEN IF \/ (date.tod >= time(7, 0) /\ date.tod < time(11, 0))
            \/ (date.tod >= time(17, 0) /\ date.tod < time(21, 0))
         THEN "variable"
         ELSE IF \/ (date.tod >= time(11, 0) /\ date.tod < time(17, 0))
                 \/ (date.tod >= time(21, 0) /\ date.tod < time(23, 0))
              THEN "offpeak" ELSE "night"
    ELSE IF date.tod >= time(7, 0) /\ date.tod < time(23, 0)
         THEN "offpeak" ELSE "night"

\* method dispatch of plan.variable(date)
Tier(plan, date) ==
    LET owner == VariableOwner(plan_class(plan.name))
    IN  CASE owner = "ContactGoodCharge" -> ContactGoodCharge_variable(date)
          [] owner = "ContactGoodNights" -> ContactGoodNights_variable(date)
          [] owner = "ContactGoodWeekends" -> ContactGoodWeekends_variable(date)
          [] owner = "ElectricKiwi" -> ElectricKiwi_variable(date)
          [] owner = "ElectricKiwiMoveMaster" -> ElectricKiwiMoveMaster_variable(date)
          [] owner = "FlickOffPeak" -> FlickOffPeak_variable(date)
          [] owner = "GenesisEV" -> GenesisEV_variable(date)
          [] owner = "ZEv" -> ZEv_variable(date)
          [] owner = "OctopusFixed" -> OctopusFixed_variable(date)
          [] OTHER -> Plan_variable(date)

\* plan.variable(date) raises (NotImplementedError or KeyError)
variable_raises(plan, date) ==
    Tier(plan, date) # "free" /\ Tier(plan, date) \notin DOMAIN plan.prices

variable(plan, date) ==
    IF Tier(plan, date) = "free" THEN 0 ELSE plan.prices[Tier(plan, date)]

daily_raises(plan) == "daily" \notin DOMAIN plan.prices

daily(plan) == plan.prices["daily"]

surcharge(plan) ==
    IF "surcharge" \in DOMAIN plan.prices THEN plan.prices["surcharge"] ELSE 0

bonus(plan) ==
    IF "bonus" \in DOMAIN plan.prices THEN plan.prices["bonus"] ELSE 0

\* Plan.total: subtotal * (1 + surcharge), surcharge held in hundredths
total_nosurcharge(plan, subtotal) == subtotal

total(plan, subtotal) == RMul(subtotal, Rat(100 + surcharge(plan), 100))

\* ------------------------------------------------------ daily aggregation
RECURSIVE sum(_)
sum(s) == IF s = <<>> THEN 0 ELSE Head(s) + sum(Tail(s))

\* sum(half_hour_totals[n * 2:n * 2 + 2])
hour_total(half_hour_totals, n) ==
    half_hour_totals[2 * n + 1] + half_hour_totals[2 * n + 2]

is_peak_hour(n) == (n >= 7 /\ n < 9) \/ (n >= 17 /\ n < 21)

\* the loop of ElectricKiwi.daily_total from hour n on, with the running
\* max_hour_value and max_hour; returns the final max_hour
RECURSIVE free_hour_loop(_, _, _, _)
free_hour_loop(half_hour_totals, n, max_hour_value, best) ==
    IF n = 24 THEN best
    ELSE IF is_peak_hour(n)
         THEN free_hour_loop(half_hour_totals, n + 1, max_hour_value, best)
         ELSE IF hour_total(half_hour_totals, n) > max_hour_value
              THEN free_hour_loop(half_hour_totals, n + 1,
                                  hour_total(half_hour_totals, n), n)
              ELSE free_hour_loop(half_hour_totals, n + 1, max_hour_value, best)

free_hour(half_hour_totals) == free_hour_loop(half_hour_totals, 0, 0, 0)

RECURSIVE sum_hours_except(_, _, _)
sum_hours_except(half_hour_totals, n, skip) ==
    IF n = 24 THEN 0
    ELSE (IF n # skip THEN hour_total(half_hour_totals, n) ELSE 0)
         + sum_hours_except(half_hour_totals, n + 1, skip)

Plan_daily_total(half_hour_totals) == sum(half_hour_totals)

ElectricKiwi_daily_total_short(half_hour_totals) ==
    IF Len(half_hour_totals) < 48
    THEN sum(half_hour_totals)
    ELSE sum_hours_except(half_hour_totals, 0, free_hour(half_hour_totals))

ElectricKiwi_daily_total(half_hour_totals) ==
    IF Len(half_hour_totals) # 48
    THEN sum(half_hour_totals)
    ELSE sum_hours_except(half_hour_totals, 0, free_hour(half_hour_totals))

\* method dispatch of plan.daily_total(half_hour_totals)
daily_total(plan, half_hour_totals) ==
    IF IsElectricKiwi(plan_class(plan.name))
    THEN ElectricKiwi_daily_total(half_hour_totals)
    ELSE Plan_daily_total(half_hour_totals)

\* the max_hour the call settles on; None when the call selects no hour
selected_hour(plan, half_hour_totals) ==
    IF IsElectricKiwi(plan_class(plan.name)) /\ Len(half_hour_totals) = 48
    THEN free_hour(half_hour_totals) ELSE None

\* ------------------------------------------------------------ ranking
\* code-point order of the names the catalogue uses
NameOrder ==
    <<"Acme", "Bolt", "Cheap", "ContactGoodCharge", "ContactGoodNights",
      "ElectricKiwi", "ElectricKiwiMoveMaster", "GenesisEV", "NoDaily", "NoVar">>

NameRank(name) == CHOOSE i \in 1..Len(NameOrder) : NameOrder[i] = name

BoolRank(b) == IF b THEN 1 ELSE 0

\* tuple comparison of (period_cost, year_cost, name, custom)
TupleLess(a, b) ==
    IF a.period_cost # b.period_cost THEN RLess(a.period_cost, b.period_cost)
    ELSE IF a.year_cost # b.year_cost THEN RLess(a.year_cost, b.year_cost)
    ELSE IF a.name # b.name THEN NameRank(a.name) < NameRank(b.name)
    ELSE BoolRank(a.custom) < BoolRank(b.custom)

\* x placed behind every element that is not greater than it
RECURSIVE insert_sorted(_, _)
insert_sorted(s, x) ==
    IF s = <<>> THEN <<x>>
    ELSE IF TupleLess(x, Head(s)) THEN <<x>> \o s
         ELSE <<Head(s)>> \o insert_sorted(Tail(s), x)

RECURSIVE sort_from(_, _)
sort_from(done, rest) ==
    IF rest = <<>> THEN done
    ELSE sort_from(insert_sorted(done, Head(rest)), Tail(rest))

sort_unsorted(s) == s

\* results.sort(): a stable ascending sort of the tuples
sort(s) == sort_from(<<>>, s)

\* ------------------------------------------------------------- inputs
\* rows of prices.csv, as loaded by analyse.py:282-308
Acme == [name |-> "Acme", prices |-> [variable |-> 20, daily |-> 200]]
Bolt == [name |-> "Bolt", prices |-> [variable |-> 20, daily |-> 200]]
Cheap == [name |-> "Cheap",
          prices |-> [variable |-> 20, daily |-> 200, surcharge |-> 10, bonus |-> 1]]
NoVar == [name |-> "NoVar", prices |-> [daily |-> 200]]
NoDaily == [name |-> "NoDaily", prices |-> [variable |-> 20]]
Nameless == [name |-> "", prices |-> [variable |-> 20, daily |-> 200]]
GenesisEVPlan ==
    [name |-> "GenesisEV", prices |-> [variable |-> 30, offpeak |-> 10, daily |-> 200]]
ContactGoodChargePlan ==
    [name |-> "ContactGoodCharge",
     prices |-> [variable |-> 30, offpeak |-> 10, daily |-> 200]]
ContactGoodNightsPlan ==
    [name |-> "ContactGoodNights", prices |-> [variable |-> 25, daily |-> 200]]
ElectricKiwiPlan ==
    [name |-> "ElectricKiwi", prices |-> [variable |-> 30, offpeak |-> 20, daily |-> 200]]
ElectricKiwiMoveMasterPlan ==
    [name |-> "ElectricKiwiMoveMaster",
     prices |-> [variable |-> 30, offpeak |-> 20, night |-> 10, daily |-> 100]]

PlanUniverse ==
    {Acme, Bolt, Cheap, NoVar, NoDaily, Nameless, GenesisEVPlan,
     ContactGoodChargePlan, ContactGoodNightsPlan, ElectricKiwiPlan,
     ElectricKiwiMoveMasterPlan}

CatalogPlans == {Acme, Bolt, Cheap, NoVar, Nameless, ElectricKiwiPlan}

Days == 0..MaxDay

\* 00:00:00 06:59:59 07:00:00 20:59:59 21:00:00 23:59:00 23:59:30
TimesOfDay == {0, 25199, 25200, 75599, 75600, 86340, 86370}

DateAfter(date, duration) ==
    [day |-> (AbsSeconds(date) + duration) \div 86400,
     tod |-> (AbsSeconds(date) + duration) % 86400]

Row(day, tod, duration, usage) ==
    [period_start |-> [day |-> day, tod |-> tod],
     period_end |-> DateAfter([day |-> day, tod |-> tod], duration),
     usage |-> usage]

\* half-hour rows at every time of day, and at 07:00 rows of one hour, of
\* two hours and of a day and a half hour
RowUniverse ==
    {Row(d, t, 1800, 1) : d \in Days, t \in TimesOfDay}
    \cup {Row(d, 25200, dur, 2) : d \in Days, dur \in {3600, 7200, 88200}}

\* start-time-ordered sequences of n rows
OrderedRows(n) ==
    {s \in [1..n -> RowUniverse] :
        \A i \in 1..(n - 1) :
            AbsSeconds(s[i].period_start) <= AbsSeconds(s[i + 1].period_start)}

\* one calendar day of 48 half-hour rows of usage 1
FullDay == [i \in 1..48 |-> Row(0, (i - 1) * 1800, 1800, 1)]

Datasets == (UNION {OrderedRows(n) : n \in 0..MaxRows}) \cup {FullDay}

CatalogDatasets ==
    {<<>>,
     <<Row(0, 25200, 7200, 2)>>,
     <<Row(0, 25200, 1800, 1), Row(0, 75600, 1800, 1)>>,
     <<Row(0, 75600, 1800, 1), Row(1, 25200, 7200, 2), Row(1, 75600, 1800, 1)>>}

Catalogs(universe, n) == UNION {[1..k -> universe] : k \in 1..n}

\* total_time as accumulated while loading the usage file (analyse.py:324)
RECURSIVE load_total_time(_)
load_total_time(rows) ==
    IF rows = <<>> THEN 0
    ELSE seconds(Head(rows).period_start, Head(rows).period_end)
         + load_total_time(Tail(rows))

\* ---------------------------------------------------------- initial states
Loaded(catalog, rows) ==
    /\ plans = catalog
    /\ usage_data = rows
    /\ total_time = load_total_time(rows)
    /\ results = <<>>
    /\ planIdx = 0
    /\ rowIdx = 0
    /\ total_cost = 0
    /\ current_day = None
    /\ day_prices = <<>>
    /\ period_usage_charge = 0
    /\ max_hour = None
    /\ evaluated = <<>>

\* one plan against every dataset
Init ==
    /\ pc = "start"
    /\ \E catalog \in Catalogs(PlanUniverse, 1), rows \in Datasets :
           Loaded(catalog, rows)

\* every catalogue against a few datasets
InitCatalog ==
    /\ pc = "start"
    /\ \E catalog \in Catalogs(CatalogPlans, MaxPlans), rows \in CatalogDatasets :
           Loaded(catalog, rows)

\* ------------------------------------------------------ the evaluation loop
plan == plans[planIdx]

row == usage_data[rowIdx]

NoEntry == [period_cost |-> <<0, 1>>, year_cost |-> <<0, 1>>, name |-> "", custom |-> FALSE]

\* for plan in plans: ... total_cost = 0; current_day = None; day_prices = []
StartPlan_keep_total ==
    /\ pc \in {"start", "appended", "handled"}
    /\ planIdx < Len(plans)
    /\ planIdx' = planIdx + 1
    /\ rowIdx' = 1
    /\ current_day' = None
    /\ day_prices' = <<>>
    /\ pc' = "loop"
    /\ UNCHANGED <<plans, usage_data, total_time, results, total_cost,
                   period_usage_charge, max_hour, evaluated>>

StartPlan ==
    /\ pc \in {"start", "appended", "handled"}
    /\ planIdx < Len(plans)
    /\ planIdx' = planIdx + 1
    /\ rowIdx' = 1
    /\ total_cost' = 0
    /\ current_day' = None
    /\ day_prices' = <<>>
    /\ pc' = "loop"
    /\ UNCHANGED <<plans, usage_data, total_time, results,
                   period_usage_charge, max_hour, evaluated>>

\* the anomaly filter
is_skipped(r) == seconds(r.period_start, r.period_end) > 3600

SkipRow ==
    /\ pc = "loop"
    /\ rowIdx <= Len(usage_data)
    /\ is_skipped(row)
    /\ rowIdx' = rowIdx + 1
    /\ UNCHANGED <<plans, usage_data, total_time, results, pc, planIdx,
                   total_cost, current_day, day_prices, period_usage_charge,
                   max_hour, evaluated>>

\* one pass of the loop body for a row the filter lets through
PriceRow ==
    /\ pc = "loop"
    /\ rowIdx <= Len(usage_data)
    /\ ~is_skipped(row)
    /\ LET day == IF current_day = None THEN row.period_start.day ELSE current_day
           charge == variable(plan, row.period_start) * row.usage
       IN  IF variable_raises(plan, row.period_start)
           THEN /\ pc' = "except"
                /\ current_day' = day
                /\ UNCHANGED <<rowIdx, total_cost, day_prices,
                               period_usage_charge, max_hour>>
           ELSE IF row.period_start.day = day
           THEN /\ period_usage_charge' = charge
                /\ day_prices' = Append(day_prices, charge)
                /\ current_day' = day
                /\ rowIdx' = rowIdx + 1
                /\ UNCHANGED <<pc, total_cost, max_hour>>
           ELSE IF daily_raises(plan)
           THEN /\ pc' = "except"
                /\ period_usage_charge' = charge
                /\ current_day' = day
                /\ max_hour' = selected_hour(plan, day_prices)
                /\ UNCHANGED <<rowIdx, total_cost, day_prices>>
           ELSE /\ period_usage_charge' = charge
                /\ total_cost' = total_cost + daily_total(plan, day_prices) + daily(plan)
                /\ max_hour' = selected_hour(plan, day_prices)
                /\ day_prices' = <<charge>>
                /\ current_day' = row.period_start.day
                /\ rowIdx' = rowIdx + 1
                /\ UNCHANGED pc
    /\ UNCHANGED <<plans, usage_data, total_time, results, planIdx, evaluated>>

\* close final day
CloseFinalDay ==
    /\ pc = "loop"
    /\ rowIdx > Len(usage_data)
    /\ max_hour' = selected_hour(plan, day_prices)
    /\ IF daily_raises(plan)
       THEN pc' = "except" /\ UNCHANGED total_cost
       ELSE /\ total_cost' = total_cost + daily_total(plan, day_prices) + daily(plan)
            /\ pc' = "closed"
    /\ UNCHANGED <<plans, usage_data, total_time, results, planIdx, rowIdx,
                   current_day, day_prices, period_usage_charge, evaluated>>

\* the tuple results.append receives
result_entry(p, cost, observed) ==
    LET subtotal == total(p, <<cost, 1>>)
        scalar == Rat(TOTAL_TIME_PERIOD, observed)
        year_cost == RSub(RMul(subtotal, scalar), <<bonus(p) * 100, 1>>)
    IN  [period_cost |-> RDiv(year_cost, scalar),
         year_cost |-> year_cost,
         name |-> p.name,
         custom |-> custom(p)]

\* subtotal, scalar, bonus, year_cost, period_cost, results.append
Finalize ==
    /\ pc = "closed"
    /\ IF total_time = 0 \/ plan.name = ""
       THEN pc' = "except" /\ UNCHANGED <<results, evaluated>>
       ELSE /\ results' = Append(results, result_entry(plan, total_cost, total_time))
            /\ evaluated' = Append(evaluated,
                   [ok |-> TRUE, entry |-> result_entry(plan, total_cost, total_time)])
            /\ pc' = "appended"
    /\ UNCHANGED <<plans, usage_data, total_time, planIdx, rowIdx, total_cost,
                   current_day, day_prices, period_usage_charge, max_hour>>

\* except Exception as e: print(f'Error processing {plan.prices["name"]}: {e}')
HandleException ==
    /\ pc = "except"
    /\ IF plan.name = ""
       THEN pc' = "aborted" /\ UNCHANGED evaluated
       ELSE /\ pc' = "handled"
            /\ evaluated' = Append(evaluated, [ok |-> FALSE, entry |-> NoEntry])
    /\ UNCHANGED <<plans, usage_data, total_time, results, planIdx, rowIdx,
                   total_cost, current_day, day_prices, period_usage_charge,
                   max_hour>>

\* results.sort()
Sort ==
    /\ pc \in {"start", "appended", "handled"}
    /\ planIdx = Len(plans)
    /\ results' = sort(results)
    /\ pc' = "done"
    /\ UNCHANGED <<plans, usage_data, total_time, planIdx, rowIdx, total_cost,
                   current_day, day_prices, period_usage_charge, max_hour,
                   evaluated>>

Next ==
    \/ StartPlan
    \/ SkipRow
    \/ PriceRow
    \/ CloseFinalDay
    \/ Finalize
    \/ HandleException
    \/ Sort

Spec == Init /\ [][Next]_vars

SpecCatalog == InitCatalog /\ [][Next]_vars

\* ------------------------------------------ daily_total on its own inputs
Charges == (-MaxCharge)..MaxCharge

\* both half hours of the hours 0, 1, 6, 7, 8, 9, 16, 17, 20, 21 and 23
KiwiPositions ==
    {1, 2, 3, 4, 13, 14, 15, 16, 17, 18, 19, 20, 33, 34, 35, 36, 41, 42, 43,
     44, 47, 48}

KiwiLengths == {0, 1, 47, 48, 49}

\* a day of n equal charges with up to two of them changed
KiwiLists ==
    {[k \in 1..n |-> IF k = i THEN v ELSE IF k = j THEN w ELSE b] :
        n \in KiwiLengths, b \in Charges, v \in Charges, w \in Charges,
        i \in KiwiPositions, j \in KiwiPositions}

KiwiPlans == {ElectricKiwiPlan, ElectricKiwiMoveMasterPlan, Acme}

InitKiwi ==
    /\ pc = "call"
    /\ \E p \in KiwiPlans, half_hour_totals \in KiwiLists :
        /\ plans = <<p>>
        /\ day_prices = half_hour_totals
    /\ usage_data = <<>>
    /\ total_time = 0
    /\ results = <<>>
    /\ planIdx = 1
    /\ rowIdx = 1
    /\ total_cost = 0
    /\ current_day = None
    /\ period_usage_charge = 0
    /\ max_hour = None
    /\ evaluated = <<>>

\* total_cost += plan.daily_total(day_prices), from a zero total
CallDailyTotal ==
    /\ pc = "call"
    /\ total_cost' = total_cost + daily_total(plan, day_prices)
    /\ max_hour' = selected_hour(plan, day_prices)
    /\ pc' = "returned"
    /\ UNCHANGED <<plans, usage_data, total_time, results, planIdx, rowIdx,
                   current_day, day_prices, period_usage_charge, evaluated>>

NextKiwi == CallDailyTotal

SpecKiwi == InitKiwi /\ [][NextKiwi]_vars

\* ------------------------------------------------------------ properties
prev_row == usage_data[rowIdx - 1]

\* the loop has just priced a row (it did not skip it and nothing was raised)
JustPriced == pc = "loop" /\ rowIdx > 1 /\ ~is_skipped(prev_row)

NonSkipped == SelectSeq(usage_data, LAMBDA r : ~is_skipped(r))

RECURSIVE sum_charges(_, _)
sum_charges(p, rows) ==
    IF rows = <<>> THEN 0
    ELSE variable(p, Head(rows).period_start) * Head(rows).usage
         + sum_charges(p, Tail(rows))

DistinctDates(rows) == {rows[i].period_start.day : i \in 1..Len(rows)}

\* C1: for a plan with the default daily aggregation, the total after the
\* final day is closed is the daily price once per distinct calendar date
\* among the rows that were not skipped, plus the charge of each such row;
\* with no such row (an empty dataset, or every row skipped) it is zero.
C1_TotalPerDistinctDate ==
    (pc = "closed" /\ ~IsElectricKiwi(plan_class(plan.name)))
        => total_cost = daily(plan) * Cardinality(DistinctDates(NonSkipped))
                        + sum_charges(plan, NonSkipped)

Duration(r) == AbsSeconds(r.period_end) - AbsSeconds(r.period_start)

\* C2: a row whose duration exceeds 3600 seconds, a day or more included,
\* takes no part in the aggregation: the pass of the loop over it leaves the
\* total, the current day and the day's bucket as they were.
C2_AnomalyExcluded ==
    [][(pc = "loop" /\ rowIdx <= Len(usage_data) /\ Duration(row) > 3600)
          => UNCHANGED <<total_cost, current_day, day_prices>>]_vars

OkEntries == SelectSeq(evaluated, LAMBDA o : o.ok)

\* C3: an exception in one plan's evaluation never aborts the run; every
\* plan of the catalogue is evaluated, and the results hold one entry for
\* each plan that raised nothing and none for a plan that raised.
C3_FailureIsolated ==
    /\ pc # "aborted"
    /\ pc = "done" =>
        /\ Len(evaluated) = Len(plans)
        /\ Len(results) = Len(OkEntries)
        /\ \A i \in 1..Len(results) :
               \E k \in 1..Len(OkEntries) : OkEntries[k].entry = results[i]

\* position at which a tuple was first appended to results
FirstAppended(e) ==
    CHOOSE k \in 1..Len(OkEntries) :
        /\ OkEntries[k].entry = e
        /\ \A m \in 1..(k - 1) : OkEntries[m].entry # e

\* C4 as stated: the reported results ascend by periodCost, and plans with
\* equal periodCost keep the order in which they were evaluated.
C4_StableByPeriodCost ==
    pc = "done" =>
        \A i, j \in 1..Len(results) :
            i < j =>
                /\ ~RLess(results[j].period_cost, results[i].period_cost)
                /\ results[i].period_cost = results[j].period_cost
                       => FirstAppended(results[i]) <= FirstAppended(results[j])

Count(s, e) == Cardinality({k \in 1..Len(s) : s[k] = e})

\* C4 amended: the reported results are the appended tuples, ascending by
\* periodCost; plans with equal periodCost are ordered by annualizedCost,
\* then by name, then by custom flag, not by order of evaluation.
C4_SortedByTuple ==
    pc = "done" =>
        /\ Len(results) = Len(OkEntries)
        /\ \A k \in 1..Len(OkEntries) :
               Count(results, OkEntries[k].entry)
                   = Cardinality({m \in 1..Len(OkEntries) :
                                      OkEntries[m].entry = OkEntries[k].entry})
        /\ \A i, j \in 1..Len(results) :
               i < j =>
                   /\ ~RLess(results[j].period_cost, results[i].period_cost)
                   /\ results[i].period_cost = results[j].period_cost
                          => ~RLess(results[j].year_cost, results[i].year_cost)
                   /\ (/\ results[i].period_cost = results[j].period_cost
                       /\ results[i].year_cost = results[j].year_cost)
                          => NameRank(results[i].name) <= NameRank(results[j].name)
                   /\ (/\ results[i].period_cost = results[j].period_cost
                       /\ results[i].year_cost = results[j].year_cost
                       /\ results[i].name = results[j].name)
                          => BoolRank(results[i].custom) <= BoolRank(results[j].custom)

\* two plans of equal periodCost reported against their order of evaluation
C4_Witness ==
    /\ pc = "done"
    /\ \E i, j \in 1..Len(results) :
           /\ i < j
           /\ results[i].period_cost = results[j].period_cost
           /\ FirstAppended(results[i]) > FirstAppended(results[j])

EligibleHours == {n \in 0..23 : ~is_peak_hour(n)}

\* C5: on 48 charges the selected hour is a non-peak hour whose sum is the
\* greatest of the non-peak hours, and the lowest such hour.
C5_FreeHourIsFirstMaximum ==
    (pc = "returned" /\ IsElectricKiwi(plan_class(plan.name)) /\ Len(day_prices) = 48)
        => /\ max_hour \in EligibleHours
           /\ \A n \in EligibleHours :
                  /\ hour_total(day_prices, n) <= hour_total(day_prices, max_hour)
                  /\ n < max_hour
                         => hour_total(day_prices, n) < hour_total(day_prices, max_hour)

\* C6: ElectricKiwi.daily_total, in every class that inherits it, returns
\* on 48 charges their sum less the two charges of the selected hour, and
\* on any other number of charges their plain sum.
C6_DailyTotal ==
    (pc = "returned" /\ IsElectricKiwi(plan_class(plan.name)))
        => total_cost =
               IF Len(day_prices) = 48
               THEN sum(day_prices) - day_prices[2 * max_hour + 1]
                                    - day_prices[2 * max_hour + 2]
               ELSE sum(day_prices)

\* a MoveMaster day of 48 charges whose free hour was worth something
C6_Witness ==
    /\ pc = "returned"
    /\ plan = ElectricKiwiMoveMasterPlan
    /\ Len(day_prices) = 48
    /\ max_hour > 0
    /\ total_cost < sum(day_prices)

\* C7: ContactGoodCharge and GenesisEV price a start at second t of the day
\* at 'variable' when 07:00:00 <= t < 21:00:00 and at 'offpeak' otherwise,
\* on every day of the week.
C7_PeakWindow ==
    (JustPriced /\ plan.name \in {"ContactGoodCharge", "GenesisEV"})
        => period_usage_charge =
               (IF 25200 <= prev_row.period_start.tod
                   /\ prev_row.period_start.tod < 75600
                THEN plan.prices["variable"] ELSE plan.prices["offpeak"])
               * prev_row.usage

\* ContactGoodCharge has priced a Saturday start of 21:00:00 as off-peak
C7_Witness ==
    /\ JustPriced
    /\ plan = ContactGoodChargePlan
    /\ prev_row.period_start.tod = 75600
    /\ weekday(prev_row.period_start) = 5
    /\ period_usage_charge = 10

\* C8: for a plan that was appended, with observed = total_time > 0,
\* annualizedCost = total_cost * (1 + surcharge) * (31536000 / observed)
\* - bonus * 100 and periodCost = annualizedCost / (31536000 / observed),
\* that is periodCost = total_cost * (1 + surcharge)
\* - bonus * 100 * observed / 31536000; the full day at variable 20 and
\* daily 200 gives total_cost = periodCost = 1160, annualizedCost = 423400.
C8_Annualised ==
    pc = "appended" =>
        LET e == results[Len(results)]
            subtotal == Rat(total_cost * (100 + surcharge(plan)), 100)
            hundred_bonus == <<bonus(plan) * 100, 1>>
        IN  /\ total_time > 0
            /\ e.year_cost
                   = RSub(RMul(subtotal, Rat(31536000, total_time)), hundred_bonus)
            /\ e.period_cost
                   = RSub(subtotal, RMul(hundred_bonus, Rat(total_time, 31536000)))
            /\ RMul(e.period_cost, Rat(31536000, total_time)) = e.year_cost
            /\ (usage_data = FullDay /\ plan = Acme)
                   => /\ total_cost = 1160
                      /\ e.period_cost = <<1160, 1>>
                      /\ e.year_cost = <<1160 * 365, 1>>

\* the surcharged plan with a bonus, annualised over the full day
C8_Witness ==
    /\ pc = "appended"
    /\ plan = Cheap
    /\ usage_data = FullDay
    /\ results[Len(results)].period_cost # <<total_cost, 1>>

SameOutcomeForSamePlan ==
    \A i, j \in 1..Len(evaluated) : plans[i] = plans[j] => evaluated[i] = evaluated[j]

Failed == [ok |-> FALSE, entry |-> NoEntry]

\* the outcome of one plan computed from the plan and the rows alone: the
\* rows still to read, the seconds observed, and the total, the current day
\* and the bucket so far
RECURSIVE outcome_from(_, _, _, _, _, _)
outcome_from(p, rows, observed, cost, day, bucket) ==
    IF rows = <<>>
    THEN IF daily_raises(p) \/ observed = 0 \/ p.name = ""
         THEN Failed
         ELSE [ok |-> TRUE,
               entry |-> result_entry(p, cost + daily_total(p, bucket) + daily(p),
                                      observed)]
    ELSE LET r == Head(rows)
             d == IF day = None THEN r.period_start.day ELSE day
         IN  IF is_skipped(r)
             THEN outcome_from(p, Tail(rows), observed, cost, day, bucket)
             ELSE IF variable_raises(p, r.period_start) THEN Failed
             ELSE IF r.period_start.day = d
             THEN outcome_from(p, Tail(rows), observed, cost, d,
                      Append(bucket, variable(p, r.period_start) * r.usage))
             ELSE IF daily_raises(p) THEN Failed
             ELSE outcome_from(p, Tail(rows), observed,
                      cost + daily_total(p, bucket) + daily(p),
                      r.period_start.day,
                      <<variable(p, r.period_start) * r.usage>>)

OutcomeOf(p, rows) == outcome_from(p, rows, load_total_time(rows), 0, None, <<>>)

OutcomeIsFunctionOfPlanAndData ==
    \A i \in 1..Len(evaluated) : evaluated[i] = OutcomeOf(plans[i], usage_data)

\* C9: no step changes the usage data, the observed total time or a plan's
\* configuration, and a plan's outcome depends only on its configuration and
\* the usage data: it is what the plan and the rows alone determine, so the
\* same plan at two places of a catalogue, whatever was evaluated or failed
\* before it, has the same outcome.  (The outcomes recorded so far are read
\* in the state a step starts from: every state that records a new outcome
\* has a step leaving it, StartPlan or Sort.)
C9_Frame ==
    [][/\ usage_data' = usage_data
       /\ total_time' = total_time
       /\ plans' = plans
       /\ OutcomeIsFunctionOfPlanAndData
       /\ SameOutcomeForSamePlan']_vars

\* the same plan succeeded first and third, around a plan that failed
C9_Witness ==
    /\ pc = "done"
    /\ Len(plans) = 3
    /\ plans[1] = plans[3]
    /\ evaluated[1].ok
    /\ ~evaluated[2].ok
    /\ evaluated[3] = evaluated[1]
    /\ evaluated[1].entry.period_cost # <<0, 1>>

\* C10: ContactGoodNights prices a start at or after 21:00:00 (up to
\* 23:59:59) at zero and a start before 21:00:00 at 'variable'.
C10_FreeNights ==
    (JustPriced /\ plan.name = "ContactGoodNights")
        => period_usage_charge =
               (IF prev_row.period_start.tod >= 75600
                THEN 0 ELSE plan.prices["variable"])
               * prev_row.usage

====
